---- MODULE Spec2Model ----
(***************************************************************************)
(* The content-processing workflow of examples/langgraph/content-processor *)
(* (class ContentProcessor): four nodes over a six-field ContentState, one *)
(* conditional edge after validate_input, and the step-by-step execution   *)
(* of the compiled graph by ContentProcessor.run.                          *)
(*                                                                         *)
(* A Python str is modelled as a sequence of one-character strings, so     *)
(* that len, strip, replace, capitalize, endswith and the f-string         *)
(* formatting are computed on the characters.  The three emoji of the      *)
(* source are single characters named by their code point.                 *)
(***************************************************************************)
EXTENDS Integers, Sequences, FiniteSets, TLC

VARIABLES input, state, cur, outcome, trace, label, order, routed,
          ustate, uprev, unode, uroute

vars ==
  <<input, state, cur, outcome, trace, label, order, routed,
    ustate, uprev, unode, uroute>>

runVars ==
  <<input, state, cur, outcome, trace, label, order, routed>>

unitVars == <<ustate, uprev, unode, uroute>>

(***************************************************************************)
(* Bounds of the model                                                     *)
(***************************************************************************)
\* longest enumerated input of a single run
MaxLen == 5

\* longest enumerated input of each of two interleaved runs
MaxPairLen == 1

\* longest enumerated content of a state a node is applied to directly
MaxUnitLen == 3

\* characters the enumerated inputs are made of
Alphabet == {" ", "a", "B", "."}

\* the calls of ContentProcessor.run made on one ContentProcessor
RunIds == {1, 2}

(***************************************************************************)
(* String literals of the source                                           *)
(***************************************************************************)
\* validate_input: the error text for empty or blank content
EmptyError ==
  <<"I", "n", "p", "u", "t", " ", "c", "o", "n", "t", "e", "n", "t", " ",
    "i", "s", " ", "e", "m", "p", "t", "y", " ", "o", "r", " ", "i", "n",
    "v", "a", "l", "i", "d">>

\* validate_input: the error text for over-length content
TooLongError ==
  <<"I", "n", "p", "u", "t", " ", "c", "o", "n", "t", "e", "n", "t", " ",
    "i", "s", " ", "t", "o", "o", " ", "l", "o", "n", "g", " ", "(", "m",
    "a", "x", " ", "1", "0", "0", "0", " ", "c", "h", "a", "r", "a", "c",
    "t", "e", "r", "s", ")">>

\* validate_input: f'Input validated: {len(content)} characters'
ValidatedPrefix ==
  <<"I", "n", "p", "u", "t", " ", "v", "a", "l", "i", "d", "a", "t", "e",
    "d", ":", " ">>

\* the ' characters' tail of the log entries and summary lines
CharactersSuffix ==
  <<" ", "c", "h", "a", "r", "a", "c", "t", "e", "r", "s">>

\* process_content: f'Content processed: {len(processed)} characters'
ProcessedPrefix ==
  <<"C", "o", "n", "t", "e", "n", "t", " ", "p", "r", "o", "c", "e", "s",
    "s", "e", "d", ":", " ">>

\* format_output: its log entry
FormattedMessage ==
  <<"O", "u", "t", "p", "u", "t", " ", "f", "o", "r", "m", "a", "t", "t",
    "e", "d", " ", "s", "u", "c", "c", "e", "s", "s", "f", "u", "l", "l", "y">>

\* handle_error: f'Error handled: {error}'
HandledPrefix ==
  <<"E", "r", "r", "o", "r", " ", "h", "a", "n", "d", "l", "e", "d", ":", " ">>

\* handle_error: f'\u274c Error: {error}'
ErrorPrefix ==
  <<"U+274C", " ", "E", "r", "r", "o", "r", ":", " ">>

\* handle_error: the default of state.get('error', ...)
UnknownError ==
  <<"U", "n", "k", "n", "o", "w", "n", " ", "e", "r", "r", "o", "r", " ",
    "o", "c", "c", "u", "r", "r", "e", "d">>

\* format_output: the template up to {processed_content}
ResultHead ==
  <<"\n", "U+1F4DD", " ", "P", "r", "o", "c", "e", "s", "s", "e", "d", " ",
    "C", "o", "n", "t", "e", "n", "t", ":", "\n">>

\* format_output: the template up to the original length
ResultStats ==
  <<"\n", "\n", "U+1F4CA", " ", "S", "t", "a", "t", "i", "s", "t", "i", "c",
    "s", ":", "\n", "-", " ", "O", "r", "i", "g", "i", "n", "a", "l", " ",
    "l", "e", "n", "g", "t", "h", ":", " ">>

\* format_output: the template up to the processed length
ResultProcessed ==
  <<" ", "c", "h", "a", "r", "a", "c", "t", "e", "r", "s", "\n", "-", " ",
    "P", "r", "o", "c", "e", "s", "s", "e", "d", " ", "l", "e", "n", "g",
    "t", "h", ":", " ">>

\* format_output: the template up to the step count
ResultSteps ==
  <<" ", "c", "h", "a", "r", "a", "c", "t", "e", "r", "s", "\n", "-", " ",
    "P", "r", "o", "c", "e", "s", "s", "i", "n", "g", " ", "s", "t", "e",
    "p", "s", ":", " ">>

\* format_output: the template after the step count (removed by strip)
ResultTail ==
  <<"\n", " ", " ", " ", " ", " ", " ", " ", " ">>

\* __main__: the valid example input
test_content ==
  <<"h", "e", "l", "l", "o", " ", "w", "o", "r", "l", "d", " ", "t", "h",
    "i", "s", " ", "i", "s", " ", "a", " ", "t", "e", "s", "t", " ", "m",
    "e", "s", "s", "a", "g", "e">>

(***************************************************************************)
(* Python str operations used by the nodes                                 *)
(***************************************************************************)
\* the limit of validate_input: len(content) > 1000
MaxContentLen == 1000

\* str.isspace for one character (the whitespace str.strip removes)
IsSpace(c) == c \in {" ", "\t", "\n", "\r"}

LowerCase == <<"a", "b", "c", "d", "e", "f", "g", "h", "i", "j", "k", "l", "m",
               "n", "o", "p", "q", "r", "s", "t", "u", "v", "w", "x", "y", "z">>

UpperCase == <<"A", "B", "C", "D", "E", "F", "G", "H", "I", "J", "K", "L", "M",
               "N", "O", "P", "Q", "R", "S", "T", "U", "V", "W", "X", "Y", "Z">>

\* str.upper for one character
upper(c) ==
  IF \E i \in 1..26 : LowerCase[i] = c
    THEN UpperCase[CHOOSE i \in 1..26 : LowerCase[i] = c]
    ELSE c

\* str.lower for one character
lower(c) ==
  IF \E i \in 1..26 : UpperCase[i] = c
    THEN LowerCase[CHOOSE i \in 1..26 : UpperCase[i] = c]
    ELSE c

\* str.strip(): drop leading and trailing whitespace
strip(s) ==
  LET keep == {i \in 1..Len(s) : ~IsSpace(s[i])}
      first == CHOOSE i \in keep : \A j \in keep : i <= j
      last == CHOOSE i \in keep : \A j \in keep : j <= i
  IN IF keep = {} THEN <<>> ELSE SubSeq(s, first, last)

\* number of consecutive spaces that end right before position i of s
SpacesBefore(s, i) ==
  LET stops == {j \in 1..(i - 1) : s[j] # " "}
      stop == IF stops = {} THEN 0
              ELSE CHOOSE j \in stops : \A k \in stops : k <= j
  IN i - 1 - stop

\* position i of s is the second space of a pair that str.replace('  ', ' ')
\* matches: the scan is left to right and matches do not overlap, so inside a
\* run of spaces the pairs start at the 1st, 3rd, 5th ... space of the run
SecondOfPair(s, i) == s[i] = " " /\ SpacesBefore(s, i) % 2 = 1

\* str.replace('  ', ' '): every matched pair of spaces becomes one space
replace(s) ==
  LET indexed == [i \in 1..Len(s) |-> <<i, s[i]>>]
      Kept(p) == ~SecondOfPair(s, p[1])
      kept == SelectSeq(indexed, Kept)
  IN [k \in 1..Len(kept) |-> kept[k][2]]

\* str.capitalize(): first character upper-cased, the others lower-cased
capitalize(s) ==
  [i \in 1..Len(s) |-> IF i = 1 THEN upper(s[i]) ELSE lower(s[i])]

\* str.endswith('.')
endswith(s) == Len(s) > 0 /\ s[Len(s)] = "."

Digits == <<"0", "1", "2", "3", "4", "5", "6", "7", "8", "9">>

RECURSIVE str(_)
\* str(n) of a non-negative int, as an f-string writes it: decimal digits
str(n) ==
  IF n < 10 THEN <<Digits[n + 1]>>
  ELSE str(n \div 10) \o <<Digits[(n % 10) + 1]>>

\* needle in hay (Python's substring test)
Contains(hay, needle) ==
  \E i \in 0..(Len(hay) - Len(needle)) :
    SubSeq(hay, i + 1, i + Len(needle)) = needle

\* dict.get(key, default)
get(d, key, default) == IF key \in DOMAIN d THEN d[key] ELSE default

(***************************************************************************)
(* ContentState and the merge of a node's partial update                   *)
(***************************************************************************)
Fields ==
  {"messages", "current_step", "content", "processed_content",
   "final_result", "error"}

\* ContentState with the operator.add annotation of messages left out
Reducer_all_replace == [f \in Fields |-> "replace"]

\* ContentState: messages is Annotated with operator.add, the other fields
\* carry no reducer and are overwritten
Reducer ==
  [f \in Fields |-> IF f = "messages" THEN "add" ELSE "replace"]

\* the state after a node's update is applied to it
Merge(current, update) ==
  [f \in (DOMAIN current) \cup (DOMAIN update) |->
     IF f \notin DOMAIN update THEN current[f]
     ELSE IF f \in DOMAIN current /\ Reducer[f] = "add"
       THEN current[f] \o update[f]
       ELSE update[f]]

(***************************************************************************)
(* The four nodes and the router                                           *)
(***************************************************************************)
\* validate_input without the blank test: only the empty string is rejected
validate_input_no_blank_test(st) ==
  LET content == get(st, "content", <<>>)
  IN IF content = <<>>
       THEN [current_step |-> "validate_input", error |-> EmptyError]
     ELSE IF Len(content) > MaxContentLen
       THEN [current_step |-> "validate_input", error |-> TooLongError]
     ELSE [messages |->
             <<ValidatedPrefix \o str(Len(content)) \o CharactersSuffix>>,
           current_step |-> "validate_input",
           content |-> strip(content),
           error |-> <<>>]

\* validate_input with the length test off by one: len(content) >= 1000
validate_input_off_by_one(st) ==
  LET content == get(st, "content", <<>>)
  IN IF content = <<>> \/ Len(strip(content)) = 0
       THEN [current_step |-> "validate_input", error |-> EmptyError]
     ELSE IF Len(content) >= MaxContentLen
       THEN [current_step |-> "validate_input", error |-> TooLongError]
     ELSE [messages |->
             <<ValidatedPrefix \o str(Len(content)) \o CharactersSuffix>>,
           current_step |-> "validate_input",
           content |-> strip(content),
           error |-> <<>>]

\* validate_input normalising the content it rejects as well
validate_input_strips_rejected(st) ==
  LET content == get(st, "content", <<>>)
  IN IF content = <<>> \/ Len(strip(content)) = 0
       THEN [current_step |-> "validate_input",
             content |-> strip(content),
             error |-> EmptyError]
     ELSE IF Len(content) > MaxContentLen
       THEN [current_step |-> "validate_input",
             content |-> strip(content),
             error |-> TooLongError]
     ELSE [messages |->
             <<ValidatedPrefix \o str(Len(content)) \o CharactersSuffix>>,
           current_step |-> "validate_input",
           content |-> strip(content),
           error |-> <<>>]

\* validate_input logging the length of the stripped content
validate_input_logs_stripped(st) ==
  LET content == get(st, "content", <<>>)
  IN IF content = <<>> \/ Len(strip(content)) = 0
       THEN [current_step |-> "validate_input", error |-> EmptyError]
     ELSE IF Len(content) > MaxContentLen
       THEN [current_step |-> "validate_input", error |-> TooLongError]
     ELSE [messages |->
             <<ValidatedPrefix \o str(Len(strip(content)))
                 \o CharactersSuffix>>,
           current_step |-> "validate_input",
           content |-> strip(content),
           error |-> <<>>]

validate_input(st) ==
  LET content == get(st, "content", <<>>)
  IN IF content = <<>> \/ Len(strip(content)) = 0
       THEN [current_step |-> "validate_input", error |-> EmptyError]
     ELSE IF Len(content) > MaxContentLen
       THEN [current_step |-> "validate_input", error |-> TooLongError]
     ELSE [messages |->
             <<ValidatedPrefix \o str(Len(content)) \o CharactersSuffix>>,
           current_step |-> "validate_input",
           content |-> strip(content),
           error |-> <<>>]

process_content(st) ==
  LET content == get(st, "content", <<>>)
      capitalized == capitalize(replace(strip(content)))
      processed == IF ~endswith(capitalized)
                     THEN capitalized \o <<".">>
                     ELSE capitalized
  IN [messages |->
        <<ProcessedPrefix \o str(Len(processed)) \o CharactersSuffix>>,
      current_step |-> "process_content",
      processed_content |-> processed,
      error |-> <<>>]

\* format_output with the original length taken from processed_content
format_output_swapped_length(st) ==
  LET processed_content == get(st, "processed_content", <<>>)
      result == strip(ResultHead \o processed_content
                      \o ResultStats \o str(Len(processed_content))
                      \o ResultProcessed \o str(Len(processed_content))
                      \o ResultSteps \o str(Len(get(st, "messages", <<>>)))
                      \o ResultTail)
  IN [messages |-> <<FormattedMessage>>,
      current_step |-> "format_output",
      final_result |-> result,
      error |-> <<>>]

format_output(st) ==
  LET processed_content == get(st, "processed_content", <<>>)
      result == strip(ResultHead \o processed_content
                      \o ResultStats \o str(Len(get(st, "content", <<>>)))
                      \o ResultProcessed \o str(Len(processed_content))
                      \o ResultSteps \o str(Len(get(st, "messages", <<>>)))
                      \o ResultTail)
  IN [messages |-> <<FormattedMessage>>,
      current_step |-> "format_output",
      final_result |-> result,
      error |-> <<>>]

\* handle_error resetting the error field once it has reported it
handle_error_clears(st) ==
  LET error == get(st, "error", UnknownError)
  IN [messages |-> <<HandledPrefix \o error>>,
      current_step |-> "handle_error",
      final_result |-> ErrorPrefix \o error,
      error |-> <<>>]

handle_error(st) ==
  LET error == get(st, "error", UnknownError)
  IN [messages |-> <<HandledPrefix \o error>>,
      current_step |-> "handle_error",
      final_result |-> ErrorPrefix \o error,
      error |-> error]

\* should_process returning a label the edge does not declare
should_process_proceed(st) ==
  IF get(st, "error", <<>>) # <<>> THEN "error" ELSE "proceed"

\* should_process with its two labels exchanged
should_process_inverted(st) ==
  IF get(st, "error", <<>>) # <<>> THEN "process" ELSE "error"

\* 'error' if state.get('error') else 'process'
should_process(st) ==
  IF get(st, "error", <<>>) # <<>> THEN "error" ELSE "process"

(***************************************************************************)
(* The graph built by _create_workflow                                     *)
(***************************************************************************)
END == "__end__"

Nodes == {"validate_input", "process_content", "format_output", "handle_error"}

EntryPoint == "validate_input"

\* the conditional edge with its two destinations exchanged
ConditionalEdges_swapped ==
  [n \in {"validate_input"} |->
     [l \in {"process", "error"} |->
        IF l = "process" THEN "handle_error" ELSE "process_content"]]

\* add_conditional_edges: source node -> (router label -> destination)
ConditionalEdges ==
  [n \in {"validate_input"} |->
     [l \in {"process", "error"} |->
        IF l = "process" THEN "process_content" ELSE "handle_error"]]

\* the direct edges with handle_error sent back to validate_input
DirectEdges_retry ==
  [n \in {"process_content", "format_output", "handle_error"} |->
     IF n = "process_content" THEN "format_output"
     ELSE IF n = "handle_error" THEN "validate_input"
     ELSE END]

\* add_edge: source node -> destination
DirectEdges ==
  [n \in {"process_content", "format_output", "handle_error"} |->
     IF n = "process_content" THEN "format_output" ELSE END]

\* the function registered under a node name by add_node
NodeFn(n, st) ==
  CASE n = "validate_input" -> validate_input(st)
    [] n = "process_content" -> process_content(st)
    [] n = "format_output" -> format_output(st)
    [] n = "handle_error" -> handle_error(st)

\* the label of the conditional edge leaving n, or "none" for a direct edge
RouterLabel(n, st) ==
  IF n \in DOMAIN ConditionalEdges THEN should_process(st) ELSE "none"

\* the destination after node n has produced state st; "__undeclared__" when
\* the router's label is not a key of the edge's mapping
NextNode(n, st) ==
  IF n \in DOMAIN ConditionalEdges
    THEN IF should_process(st) \in DOMAIN ConditionalEdges[n]
           THEN ConditionalEdges[n][should_process(st)]
           ELSE "__undeclared__"
    ELSE DirectEdges[n]

(***************************************************************************)
(* Inputs                                                                  *)
(***************************************************************************)
\* the strings over Alphabet of length at most n
Strings(n) == UNION {[1..k -> Alphabet] : k \in 0..n}

\* n copies of the character c
Fill(c, n) == [i \in 1..n |-> c]

\* inputs around the length limit: MaxContentLen - 1 .. MaxContentLen + 1
\* characters, blank or not, with and without surrounding whitespace
LongInputs ==
  {p \o Fill(c, MaxContentLen - 1) \o q :
     p \in Strings(1), q \in Strings(1), c \in {"a", " "}}

\* the contents handed to ContentProcessor.run in a single run
Inputs == Strings(MaxLen) \cup LongInputs \cup {test_content}

\* the contents handed to each of two runs in flight together
PairInputs ==
  Strings(MaxPairLen)
    \cup {test_content, Fill("a", MaxContentLen + 1), <<"a", " ", " ", "B">>}

\* the states a node is applied to directly
UnitStates ==
  [messages : {<<>>, <<FormattedMessage, FormattedMessage>>},
   current_step : {""},
   content : Strings(MaxUnitLen)
               \cup {Fill("a", MaxContentLen), Fill("a", MaxContentLen + 1),
                     <<" ">> \o Fill("a", MaxContentLen - 1),
                     <<" ">> \o Fill("a", MaxContentLen - 1) \o <<" ">>},
   processed_content : {<<>>, <<"A", ".">>},
   final_result : {<<>>},
   error : {<<>>, EmptyError, TooLongError, <<"x">>}]

(***************************************************************************)
(* ContentProcessor.run and the execution of the compiled graph            *)
(***************************************************************************)
\* the channels of a run before its input is written: the operator.add
\* channel starts as the empty list, the others hold nothing
EmptyChannels == [f \in {"messages"} |-> <<>>]

\* the dict ContentProcessor.run builds from its argument
initial_state(content) ==
  [messages |-> <<>>,
   current_step |-> "",
   content |-> content,
   processed_content |-> <<>>,
   final_result |-> <<>>,
   error |-> <<>>]

\* every node is called with the state of the first run
NodeInput_first_run(r) == state[1]

\* every node is called with the state of the run that stepped last
NodeInput_last_stepped(r) ==
  IF order = <<>> THEN state[r] ELSE state[order[Len(order)]]

\* the state a node or router of run r is called with: the run's own
NodeInput(r) == state[r]

RunInit ==
  /\ input = [r \in RunIds |-> <<>>]
  /\ state = [r \in RunIds |-> EmptyChannels]
  /\ cur = [r \in RunIds |-> "__start__"]
  /\ outcome = [r \in RunIds |-> "Pending"]
  /\ trace = [r \in RunIds |-> <<>>]
  /\ label = [r \in RunIds |-> "none"]
  /\ order = <<>>
  /\ routed = [r \in RunIds |-> 0]

UnitIdle ==
  /\ ustate = EmptyChannels
  /\ uprev = EmptyChannels
  /\ unode = "none"
  /\ uroute = <<"none", "none">>

Init == RunInit /\ UnitIdle

\* processor.run(content), call r: the run starts at the entry point with the
\* initial state written to its channels
Run(r, content) ==
  /\ outcome[r] = "Pending"
  /\ input' = [input EXCEPT ![r] = content]
  /\ state' = [state EXCEPT ![r] = Merge(EmptyChannels, initial_state(content))]
  /\ cur' = [cur EXCEPT ![r] = EntryPoint]
  /\ outcome' = [outcome EXCEPT ![r] = "Running"]
  /\ trace' = [trace EXCEPT ![r] = <<>>]
  /\ label' = [label EXCEPT ![r] = "none"]
  /\ UNCHANGED <<order, routed, unitVars>>

\* one step of app.invoke: call the current node, merge its update, then
\* follow the node's outgoing edge (calling the router on the merged state)
Step(r) ==
  /\ outcome[r] = "Running"
  /\ cur[r] \in Nodes
  /\ LET n == cur[r]
         merged == Merge(state[r], NodeFn(n, NodeInput(r)))
         next == NextNode(n, merged)
     IN /\ state' = [state EXCEPT ![r] = merged]
        /\ trace' = [trace EXCEPT ![r] = Append(@, n)]
        /\ label' = [label EXCEPT ![r] =
                       IF n \in DOMAIN ConditionalEdges
                         THEN RouterLabel(n, merged)
                         ELSE @]
        /\ cur' = [cur EXCEPT ![r] = next]
        /\ outcome' = [outcome EXCEPT ![r] =
                         IF next = END THEN "Completed"
                         ELSE IF next \in Nodes THEN "Running"
                         ELSE "Failed"]
        /\ order' = Append(order, r)
        /\ routed' = [routed EXCEPT ![r] =
                        IF n \in DOMAIN ConditionalEdges THEN @ + 1 ELSE @]
  /\ UNCHANGED <<input, unitVars>>

RECURSIVE Walk(_, _)
\* the graph walked from node n on state st until no node is left to call
Walk(n, st) ==
  IF n \notin Nodes THEN st
  ELSE LET merged == Merge(st, NodeFn(n, st))
       IN Walk(NextNode(n, merged), merged)

\* app.invoke(initial_state) of a run executed alone, from start to end
invoke(initial) == Walk(EntryPoint, Merge(EmptyChannels, initial))

\* one call of run
Next ==
  \/ \E content \in Inputs : Run(1, content)
  \/ Step(1)

Spec == Init /\ [][Next]_vars

\* two calls of run on the same processor, one after the other or with their
\* steps interleaved in any order
NextPair ==
  \/ \E r \in RunIds : \E content \in PairInputs : Run(r, content)
  \/ \E r \in RunIds : Step(r)

SpecPair == Init /\ [][NextPair]_vars

(***************************************************************************)
(* One node applied to an arbitrary state                                  *)
(***************************************************************************)
InitUnit ==
  /\ RunInit
  /\ ustate \in UnitStates
  /\ uprev = ustate
  /\ unode = "none"
  /\ uroute = <<"none", "none">>

\* node n is called on the state and its update is merged
Apply(n) ==
  /\ unode = "none"
  /\ uprev' = ustate
  /\ ustate' = Merge(ustate, NodeFn(n, ustate))
  /\ unode' = n
  /\ UNCHANGED <<uroute, runVars>>

\* the conditional edge leaving validate_input is resolved on the state: the
\* router is called and its label looked up in the edge's mapping
Route ==
  /\ unode = "none"
  /\ unode' = "should_process"
  /\ uroute' = <<RouterLabel("validate_input", ustate),
                 NextNode("validate_input", ustate)>>
  /\ UNCHANGED <<ustate, uprev, runVars>>

NextUnit ==
  \/ \E n \in Nodes : Apply(n)
  \/ Route

SpecUnit == InitUnit /\ [][NextUnit]_vars

(***************************************************************************)
(* Claims                                                                  *)
(***************************************************************************)
\* every character of s is whitespace (the empty string included)
Blank(s) == \A i \in 1..Len(s) : IsSpace(s[i])

Started(r) == outcome[r] # "Pending"

StepsTaken(r) == Len(trace[r])

ErrorPath == <<"validate_input", "handle_error">>

SuccessPath == <<"validate_input", "process_content", "format_output">>

\* the summary line 'Original length' reading 34
OriginalLength34 ==
  <<"-", " ", "O", "r", "i", "g", "i", "n", "a", "l", " ", "l", "e", "n",
    "g", "t", "h", ":", " ", "3", "4", " ", "c", "h", "a", "r", "a", "c",
    "t", "e", "r", "s", "\n">>

\* the summary line 'Original length' reading 35
OriginalLength35 ==
  <<"-", " ", "O", "r", "i", "g", "i", "n", "a", "l", " ", "l", "e", "n",
    "g", "t", "h", ":", " ", "3", "5", " ", "c", "h", "a", "r", "a", "c",
    "t", "e", "r", "s", "\n">>

\* the summary line 'Processed length' reading 35
ProcessedLength35 ==
  <<"-", " ", "P", "r", "o", "c", "e", "s", "s", "e", "d", " ", "l", "e",
    "n", "g", "t", "h", ":", " ", "3", "5", " ", "c", "h", "a", "r", "a",
    "c", "t", "e", "r", "s", "\n">>


\* C1: whatever content run is called with, the run is never Failed; while
\* it is Running it has taken fewer than three steps and stands at a node,
\* so that its next step can be taken and it reaches its end; and a Completed
\* run stands at END with a non-empty final_result.
C1_RunAlwaysCompletes ==
  \A r \in RunIds :
    /\ outcome[r] # "Failed"
    /\ outcome[r] = "Running" => StepsTaken(r) < 3 /\ cur[r] \in Nodes
    /\ outcome[r] = "Completed" =>
         cur[r] = END /\ state[r].final_result # <<>>

\* C1 witness: an over-length input whose run has completed
C1_Witness ==
  /\ outcome[1] = "Completed"
  /\ Len(input[1]) > 1000
  /\ state[1].final_result # <<>>

\* C2: when the conditional edge after validate_input is resolved on a state,
\* the router's label is one of 'process' and 'error'; with an empty error
\* field the destination is process_content, otherwise handle_error.
C2_RoutingCorrect ==
  unode = "should_process" =>
    /\ uroute[1] \in {"process", "error"}
    /\ ustate.error = <<>> => uroute[2] = "process_content"
    /\ ustate.error # <<>> => uroute[2] = "handle_error"

\* C2 witness: both sides of the boundary have been routed
C2_Witness ==
  /\ unode = "should_process"
  /\ ustate.error = <<"x">>
  /\ uroute = <<"error", "handle_error">>

\* C3: a run on empty or whitespace-only content has error = 'Input content
\* is empty or invalid' after validate_input, the router returns 'error', the
\* second and last node is handle_error, whose final_result contains that
\* message, and the run is Completed.
C3_EmptyInputHandled ==
  \A r \in RunIds :
    (Started(r) /\ Blank(input[r])) =>
      /\ outcome[r] # "Failed"
      /\ StepsTaken(r) >= 1 =>
           /\ state[r].error = EmptyError
           /\ label[r] = "error"
      /\ StepsTaken(r) = 1 => cur[r] = "handle_error"
      /\ StepsTaken(r) >= 2 =>
           /\ trace[r] = ErrorPath
           /\ Contains(state[r].final_result, EmptyError)
           /\ outcome[r] = "Completed"

\* C3 witness: a whitespace-only input has been through handle_error
C3_Witness ==
  /\ input[1] = <<" ", " ">>
  /\ trace[1] = ErrorPath
  /\ outcome[1] = "Completed"

\* C4 as stated: every input longer than 1000 characters gets the too-long
\* error from validate_input.
C4_Original ==
  \A r \in RunIds :
    (Started(r) /\ Len(input[r]) > 1000 /\ StepsTaken(r) >= 1)
      => state[r].error = TooLongError

\* C4 amended: every input longer than 1000 characters that is not blank
\* gets the too-long error, distinct from the empty-input error, and
\* takes the error path with that message in final_result; no non-blank
\* input of at most 1000 characters gets the too-long error.
C4_TooLongHandled ==
  /\ TooLongError # EmptyError
  /\ \A r \in RunIds :
       (Started(r) /\ ~Blank(input[r])) =>
         /\ (Len(input[r]) > 1000 /\ StepsTaken(r) >= 1) =>
              /\ state[r].error = TooLongError
              /\ label[r] = "error"
         /\ (Len(input[r]) > 1000 /\ StepsTaken(r) >= 2) =>
              /\ trace[r] = ErrorPath
              /\ Contains(state[r].final_result, TooLongError)
              /\ outcome[r] = "Completed"
         /\ (Len(input[r]) <= 1000 /\ StepsTaken(r) >= 1) =>
              /\ state[r].error = <<>>
              /\ trace[r][1] = "validate_input"
              /\ StepsTaken(r) >= 2 => trace[r][2] = "process_content"

\* C4 witness: a non-blank input of 1001 characters has taken the error path
C4_Witness ==
  /\ Len(input[1]) = 1001
  /\ ~Blank(input[1])
  /\ trace[1] = ErrorPath
  /\ state[1].error = TooLongError

\* C5 as stated: the summary of the example run gives 35 as original length.
C5_Original ==
  \A r \in RunIds :
    (input[r] = test_content /\ outcome[r] = "Completed")
      => Contains(state[r].final_result, OriginalLength35)

\* C5 amended: the example run validates with no error, goes through
\* process_content and format_output and completes, and its summary gives 34
\* as original length and 35, the length of processed_content, as processed
\* length.
C5_ExampleRun ==
  \A r \in RunIds :
    (Started(r) /\ input[r] = test_content) =>
      /\ outcome[r] # "Failed"
      /\ state[r].error = <<>>
      /\ StepsTaken(r) <= 3
      /\ trace[r] = SubSeq(SuccessPath, 1, StepsTaken(r))
      /\ StepsTaken(r) = 3 =>
           /\ outcome[r] = "Completed"
           /\ Len(state[r].processed_content) = 35
           /\ Contains(state[r].final_result, OriginalLength34)
           /\ Contains(state[r].final_result, ProcessedLength35)

\* C5 witness: the example run has completed
C5_Witness ==
  /\ input[1] = test_content
  /\ outcome[1] = "Completed"
  /\ trace[1] = SuccessPath

C7_MessagesAppendOnly ==
  unode \in Nodes =>
    LET update == NodeFn(unode, uprev)
        entries == IF "messages" \in DOMAIN update
                     THEN update.messages
                     ELSE <<>>
    IN /\ Len(ustate.messages) = Len(uprev.messages) + Len(entries)
       /\ SubSeq(ustate.messages, 1, Len(uprev.messages)) = uprev.messages
       /\ SubSeq(ustate.messages, Len(uprev.messages) + 1,
                 Len(ustate.messages)) = entries
       /\ Len(entries) = IF unode = "validate_input" /\ ustate.error # <<>>
                           THEN 0
                           ELSE 1

\* C7 witness: format_output applied to a log that already holds its entry
\* twice
C7_Witness ==
  /\ unode = "format_output"
  /\ ustate.messages = <<FormattedMessage, FormattedMessage, FormattedMessage>>

\* the field f of run r is the same before and after the step
Same(r, f) == state'[r][f] = state[r][f]

\* the step just taken by run r called node n
Called(r, n) == trace'[r] = Append(trace[r], n)

\* C8: a node step leaves every field its update does not name unchanged: a
\* failing validate_input leaves messages, content, processed_content and
\* final_result; process_content leaves content and final_result;
\* format_output and handle_error leave content and processed_content.
C8_FrameOfNodeStep ==
  [][\A r \in RunIds :
       /\ \A n \in Nodes :
            Called(r, n) =>
              \A f \in Fields \ DOMAIN NodeFn(n, state[r]) : Same(r, f)
       /\ (Called(r, "validate_input") /\ state'[r].error # <<>>) =>
            /\ Same(r, "messages")
            /\ Same(r, "content")
            /\ Same(r, "processed_content")
            /\ Same(r, "final_result")
       /\ Called(r, "process_content") =>
            Same(r, "content") /\ Same(r, "final_result")
       /\ (Called(r, "format_output") \/ Called(r, "handle_error")) =>
            Same(r, "content") /\ Same(r, "processed_content")]_vars

\* C8 witness: validate_input has rejected an over-length input that starts
\* with a space, and content still is that input
C8_Witness ==
  /\ trace[1] = <<"validate_input">>
  /\ state[1].error = TooLongError
  /\ input[1][1] = " "
  /\ state[1].content = input[1]

\* C9: a completed run holds the state that app.invoke yields for its input
\* when executed alone, however its steps were interleaved with those of the
\* other run.
C9_RunsIndependent ==
  \A r \in RunIds :
    outcome[r] = "Completed" => state[r] = invoke(initial_state(input[r]))

\* C9 witness: two runs with different inputs, one on each path, have
\* completed with their steps alternating
C9_Witness ==
  /\ input[1] = <<"a">>
  /\ input[2] = <<>>
  /\ outcome[1] = "Completed"
  /\ outcome[2] = "Completed"
  /\ order = <<1, 2, 1, 2, 1>>

\* t is s without its leading and trailing whitespace
Trimmed(s, t) ==
  /\ t # <<>>
  /\ ~IsSpace(t[1])
  /\ ~IsSpace(t[Len(t)])
  /\ \E i \in 0..(Len(s) - Len(t)) :
       /\ SubSeq(s, i + 1, i + Len(t)) = t
       /\ \A k \in 1..i : IsSpace(s[k])
       /\ \A k \in (i + Len(t) + 1)..Len(s) : IsSpace(s[k])

\* C10: validate_input applied to a state whose content is not blank and has
\* at most 1000 characters sets content to it without its leading and
\* trailing whitespace, sets error to the empty string whatever it was, and
\* appends exactly one log entry, 'Input validated: N characters' with N the
\* length of the content it was given.
C10_ValidateAccepts ==
  (unode = "validate_input" /\ ~Blank(uprev.content)
     /\ Len(uprev.content) <= 1000) =>
    /\ Trimmed(uprev.content, ustate.content)
    /\ ustate.error = <<>>
    /\ ustate.messages =
         Append(uprev.messages,
                ValidatedPrefix \o str(Len(uprev.content))
                  \o CharactersSuffix)

\* C10 witness: a content of 1000 characters with a leading space was
\* accepted on a state that held an error
C10_Witness ==
  /\ unode = "validate_input"
  /\ Len(uprev.content) = 1000
  /\ uprev.content[1] = " "
  /\ uprev.error = EmptyError
  /\ ustate.error = <<>>
  /\ Len(ustate.content) = 999

\* the last element of a non-empty sequence
Last(s) == s[Len(s)]

\* s holds two spaces in a row
HasDoubleSpace(s) == \E i \in 1..(Len(s) - 1) : s[i] = " " /\ s[i + 1] = " "

\* C11: once process_content has run on the validated content,
\* processed_content holds no two consecutive spaces, starts with the
\* upper-cased first character of the content and ends with '.'; right after
\* the step error is empty and the one new log entry gives the length of
\* processed_content.
C11_ProcessContent ==
  \A r \in RunIds :
    (StepsTaken(r) >= 2 /\ trace[r][2] = "process_content") =>
      /\ ~HasDoubleSpace(state[r].processed_content)
      /\ state[r].processed_content[1] = upper(state[r].content[1])
      /\ Last(state[r].processed_content) = "."
      /\ StepsTaken(r) = 2 =>
           /\ state[r].error = <<>>
           /\ Len(state[r].messages) = 2
           /\ state[r].messages[2] =
                ProcessedPrefix \o str(Len(state[r].processed_content))
                  \o CharactersSuffix

\* the label of the summary's original length
OriginalLabel ==
  <<"-", " ", "O", "r", "i", "g", "i", "n", "a", "l", " ", "l", "e", "n",
    "g", "t", "h", ":", " ">>

\* the label of the summary's processed length
ProcessedLabel ==
  <<"-", " ", "P", "r", "o", "c", "e", "s", "s", "e", "d", " ", "l", "e",
    "n", "g", "t", "h", ":", " ">>

\* the label of the summary's step count
StepsLabel ==
  <<"-", " ", "P", "r", "o", "c", "e", "s", "s", "i", "n", "g", " ", "s",
    "t", "e", "p", "s", ":", " ">>

\* s ends with t
EndsWith(s, t) ==
  Len(s) >= Len(t) /\ SubSeq(s, Len(s) - Len(t) + 1, Len(s)) = t

\* C12: in a run completed through format_output the summary gives as
\* original length the length of the content run was called with, as
\* processed length the length of processed_content and as processing steps
\* the number of log entries before format_output's own; that entry is the
\* last of messages.
C12_SummaryFigures ==
  \A r \in RunIds :
    (outcome[r] = "Completed" /\ trace[r] = SuccessPath) =>
      /\ Contains(state[r].final_result,
                  OriginalLabel \o str(Len(input[r])) \o CharactersSuffix
                    \o <<"\n">>)
      /\ Contains(state[r].final_result,
                  ProcessedLabel \o str(Len(state[r].processed_content))
                    \o CharactersSuffix \o <<"\n">>)
      /\ EndsWith(state[r].final_result,
                  StepsLabel \o str(Len(state[r].messages) - 1))
      /\ Len(state[r].messages) = 3
      /\ Last(state[r].messages) = FormattedMessage

\* C13: handle_error applied to a state with an empty error field writes the
\* unknown-error message to final_result and to its log entry; applied to a
\* state with a non-empty error field it writes that error to both.
C13_HandleErrorFallback ==
  unode = "handle_error" =>
    /\ Len(ustate.messages) = Len(uprev.messages) + 1
    /\ uprev.error = <<>> =>
         /\ ustate.final_result = ErrorPrefix \o UnknownError
         /\ Last(ustate.messages) = HandledPrefix \o UnknownError
    /\ uprev.error # <<>> =>
         /\ ustate.final_result = ErrorPrefix \o uprev.error
         /\ Last(ustate.messages) = HandledPrefix \o uprev.error

\* the number of times node n was called in run r
Calls(r, n) == Cardinality({i \in 1..Len(trace[r]) : trace[r][i] = n})

\* C14: in a run every node is called at most once and at most three steps
\* are taken; the router is called once, with the first step; a completed
\* run has taken the three steps validate_input, process_content,
\* format_output when validation left error empty and the two steps
\* validate_input, handle_error when it did not.
C14_BoundedSteps ==
  \A r \in RunIds :
    /\ \A n \in Nodes : Calls(r, n) <= 1
    /\ StepsTaken(r) <= 3
    /\ routed[r] = IF StepsTaken(r) = 0 THEN 0 ELSE 1
    /\ outcome[r] = "Completed" =>
         /\ ~Blank(input[r]) /\ Len(input[r]) <= 1000 =>
              trace[r] = SuccessPath
         /\ Blank(input[r]) \/ Len(input[r]) > 1000 =>
              trace[r] = ErrorPath

\* C14 witness: a run of three steps and one router call has completed on a
\* content of exactly 1000 characters
C14_Witness ==
  /\ outcome[1] = "Completed"
  /\ Len(input[1]) = 1000
  /\ StepsTaken(1) = 3
  /\ routed[1] = 1

\* C15: validate_input is called only as the first node; process_content
\* only right after validate_input with error empty; format_output only right
\* after process_content; handle_error only right after validate_input with
\* error non-empty; process_content and handle_error never both; and END is
\* entered only by a step of format_output or handle_error.
C15_NodeOrder ==
  [][\A r \in RunIds :
       /\ Called(r, "validate_input") => trace[r] = <<>>
       /\ Called(r, "process_content") =>
            /\ trace[r] = <<"validate_input">>
            /\ state[r].error = <<>>
       /\ Called(r, "format_output") =>
            /\ trace[r] # <<>>
            /\ Last(trace[r]) = "process_content"
       /\ Called(r, "handle_error") =>
            /\ trace[r] = <<"validate_input">>
            /\ state[r].error # <<>>
       /\ ~(Calls(r, "process_content")' > 0 /\ Calls(r, "handle_error")' > 0)
       /\ (cur[r] # END /\ cur'[r] = END) =>
            Called(r, "format_output") \/ Called(r, "handle_error")]_vars

\* C15 witness: a one-character content has gone down the success path to END
C15_Witness ==
  /\ input[1] = <<"a">>
  /\ trace[1] = SuccessPath
  /\ cur[1] = END

\* C16: in the final state of a run error is empty exactly when
\* processed_content is not; after the success path error is empty and
\* processed_content is the transformed text, ending in '.'; after the error
\* path error is one of the two validation messages, processed_content is
\* empty and content is the input as run was given it.
C16_FinalErrorVsProcessed ==
  \A r \in RunIds :
    outcome[r] = "Completed" =>
      /\ state[r].error = <<>> <=> state[r].processed_content # <<>>
      /\ trace[r] = SuccessPath =>
           /\ state[r].error = <<>>
           /\ state[r].processed_content # <<>>
           /\ Last(state[r].processed_content) = "."
      /\ trace[r] = ErrorPath =>
           /\ state[r].error \in {EmptyError, TooLongError}
           /\ state[r].processed_content = <<>>
           /\ state[r].content = input[r]

\* C16 witness: an over-length input ending in a space has completed on the
\* error path with its content untouched
C16_Witness ==
  /\ outcome[1] = "Completed"
  /\ Len(input[1]) = 1001
  /\ input[1][1001] = " "
  /\ state[1].content = input[1]
  /\ state[1].processed_content = <<>>

TypeOK ==
  /\ \A r \in RunIds :
       /\ outcome[r] \in {"Pending", "Running", "Completed", "Failed"}
       /\ cur[r] \in Nodes \cup {"__start__", END, "__undeclared__"}
       /\ outcome[r] # "Pending" => DOMAIN state[r] = Fields
       /\ routed[r] \in 0..1
====
